---------------------------- MODULE Spec2Model ----------------------------
(***************************************************************************)
(* license-preamble (src/main.rs): the `init` and `add` commands and the   *)
(* preamble formatter.                                                     *)
(*                                                                         *)
(* Text is a sequence of one-character strings, so that splitting into     *)
(* lines, trimming, joining and substring search are computed the way the  *)
(* standard library computes them.                                         *)
(*                                                                         *)
(* What the environment is taken to do:                                    *)
(*  - a file under the root is readable and writable ("ok"), cannot be     *)
(*    read as text ("unreadable": read_to_string fails) or cannot be       *)
(*    written ("readonly": fs::write fails and leaves it as it was);       *)
(*  - the directory lists its entries in some order, any of them, and in   *)
(*    the same one as long as no entry is created or removed;              *)
(*  - the writes of init (fs::write of LICENSE, soft_link of PREAMBLE     *)
(*    where no entry is) succeed, and the embedded catalog parses;         *)
(*  - PREAMBLE, when a symbolic link, points to LICENSE.                   *)
(***************************************************************************)
EXTENDS Integers, Sequences, FiniteSets, TLC

VARIABLES
    catalog,            \* licenses: the parsed LICENSE_FILES, in order
    root_files,         \* the LICENSE and PREAMBLE directory entries
    tree,               \* the entries under the source root, with contents
    order,              \* the order in which the directory lists them: a
                        \* property of the directory, which add never
                        \* changes (it rewrites files in place)
    cmd,                \* the command line of the invocations
    pc,                 \* where the running process is
    source_roots,       \* add: roots still to be walked
    preamble_contents,  \* add: the text read from PREAMBLE
    walk,               \* add: entries the current walk has yet to yield
    license_document,   \* init: index of the resolved record (0: none)
    exit,               \* "" while running, "ok", or the panic message
    log,                \* file operations and messages of this invocation
    runs,               \* invocations started
    before,             \* the disk when this invocation started
    fmtIn,              \* formatter check: the input
    fmtOut              \* formatter check: the output

vars == <<catalog, root_files, tree, order, cmd, pc, source_roots,
          preamble_contents, walk, license_document, exit, log, runs,
          before, fmtIn, fmtOut>>

---------------------------------------------------------------------------
(* Bounds *)

\* longest text given to the formatter
MaxLen == 3
\* most roots on the command line of `add`
MaxRoots == 2
\* invocations of the command in one behaviour
MaxRuns == 2
\* most records in the catalog
MaxCat == 2

---------------------------------------------------------------------------
(* Text *)

LF == "\n"
CR == "\r"
SP == " "

\* char::is_whitespace, on the characters the model uses
IsWhitespace(c) == c \in {SP, LF, CR, "\t"}

RECURSIVE TrimStart(_)
TrimStart(s) ==
    IF s # <<>> /\ IsWhitespace(Head(s)) THEN TrimStart(Tail(s)) ELSE s

RECURSIVE TrimEnd(_)
TrimEnd(s) ==
    IF s # <<>> /\ IsWhitespace(s[Len(s)])
    THEN TrimEnd(SubSeq(s, 1, Len(s) - 1))
    ELSE s

\* str::trim: leading and trailing whitespace removed
Trim(s) == TrimStart(TrimEnd(s))

\* position of the first line feed of s, 0 when it has none
FirstLF(s) ==
    IF \E i \in 1..Len(s) : s[i] = LF
    THEN CHOOSE i \in 1..Len(s) : s[i] = LF /\ \A j \in 1..(i - 1) : s[j] # LF
    ELSE 0

\* a line as str::lines yields it: without its line feed, and without a
\* carriage return right before that line feed
StripCR(s) ==
    IF s # <<>> /\ s[Len(s)] = CR THEN SubSeq(s, 1, Len(s) - 1) ELSE s

\* str::lines: the text cut after each line feed; a final line feed ends
\* the last line and starts no other; the empty text has no line
RECURSIVE Lines(_)
Lines(s) ==
    IF s = <<>> THEN <<>>
    ELSE LET i == FirstLF(s)
         IN  IF i = 0 THEN <<s>>
             ELSE <<StripCR(SubSeq(s, 1, i - 1))>>
                      \o Lines(SubSeq(s, i + 1, Len(s)))

\* [String]::join("\n")
RECURSIVE JoinLF(_)
JoinLF(ls) ==
    IF ls = <<>> THEN <<>>
    ELSE IF Len(ls) = 1 THEN ls[1]
    ELSE ls[1] \o <<LF>> \o JoinLF(Tail(ls))

\* str::contains: needle occurs in hay at some position
Contains(hay, needle) ==
    \E i \in 0..(Len(hay) - Len(needle)) :
        SubSeq(hay, i + 1, i + Len(needle)) = needle

---------------------------------------------------------------------------
(* Comment mapper and preamble formatter *)

Slashes == <<"/", "/">>

extensions ==
    << <<"rs", Slashes>>, <<"swift", Slashes>>, <<"js", Slashes>>,
       <<"ts", Slashes>>, <<"tsx", Slashes>>, <<"jsx", Slashes>> >>

\* extensions.iter().find(|(e, _)| *e == extension): index of the first
\* rule for the extension, 0 when there is none
\* fault: the comparison ignores the case of the extension
FindExtensionFolded(extension) ==
    LET fold(e) == IF e = "RS" THEN "rs" ELSE e
        hits == {i \in 1..Len(extensions) : extensions[i][1] = fold(extension)}
    IN  IF hits = {} THEN 0 ELSE CHOOSE i \in hits : \A j \in hits : i <= j

FindExtension(extension) ==
    LET hits == {i \in 1..Len(extensions) : extensions[i][1] = extension}
    IN  IF hits = {} THEN 0 ELSE CHOOSE i \in hits : \A j \in hits : i <= j

\* fault: the line is not trimmed
FormatLineUntrimmed(comment_syntax, line) == comment_syntax \o <<SP>> \o line

\* format!("{comment_syntax} {line}").trim()
FormatLine(comment_syntax, line) == Trim(comment_syntax \o <<SP>> \o line)

\* preamble_contents.lines().map(..).collect::<Vec<String>>().join("\n")
prefixed_preamble(comment_syntax, contents) ==
    LET ls == Lines(contents)
    IN  JoinLF([i \in 1..Len(ls) |-> FormatLine(comment_syntax, ls[i])])

---------------------------------------------------------------------------
(* The disk *)

Absent == [kind |-> "absent", content |-> <<>>]
RegularFile(text) == [kind |-> "file", content |-> text]
\* PREAMBLE as `init` creates it: a symbolic link to LICENSE
LinkToLicense == [kind |-> "symlink", content |-> <<>>]

\* fault: the existence check always passes
PathExistsAlways(fs, p) == TRUE

\* fault: the existence check never passes
PathExistsNever(fs, p) == FALSE

\* Path::exists: follows a symbolic link, so a dangling link does not exist
PathExists(fs, p) ==
    CASE fs[p].kind = "file" -> TRUE
      [] fs[p].kind = "symlink" -> fs["LICENSE"].kind = "file"
      [] OTHER -> FALSE

\* std::fs::read_to_string on LICENSE or PREAMBLE
ReadToString(fs, p) ==
    CASE fs[p].kind = "file" -> [ok |-> TRUE, text |-> fs[p].content]
      [] fs[p].kind = "symlink" /\ fs["LICENSE"].kind = "file" ->
             [ok |-> TRUE, text |-> fs["LICENSE"].content]
      [] OTHER -> [ok |-> FALSE, text |-> <<>>]

\* the entries below the root "src"; no root "lib" is on the disk
Files == {"f1", "f2"}
ExistingRoots == {"src"}
\* what a walk yields for a root it cannot read
ErrEntry == "<error>"

\* fault: a missing root is walked like any other
RootMissingNever(root) == FALSE

\* std::fs::metadata(&source_root).is_err()
RootMissing(root) == root \notin ExistingRoots

\* jwalk::WalkDir::new(root): the root itself, then what is below it
WalkDir(root, ord) ==
    IF root \in ExistingRoots THEN <<root>> \o ord ELSE <<ErrEntry>>

\* file.file_type.is_file(): a symbolic link is not followed
IsFile(kind) == kind = "file"

---------------------------------------------------------------------------
(* Messages *)

RunInitFirst == "Run init first"
\* (the source quotes the word list in backticks)
InvalidLicense == "Invalid license, list available licenses with list"
RefuseLicense == "Refusing to overwrite LICENSE file"
RefusePreamble == "Refusing to overwrite PREAMBLE file"
\* the panic of an unwrap() on an I/O error
UnwrapErr == "called Result::unwrap() on an Err value"

Event(op, path) == [op |-> op, path |-> path]

---------------------------------------------------------------------------
(* add: one entry of the walk, lines 185-207 *)

\* fault: only a file that is the block itself counts as stamped
IsStampedExact(file_contents, block) == file_contents = block

\* fault: the block is looked for at the start of the file only
IsStampedPrefix(file_contents, block) ==
    /\ Len(block) <= Len(file_contents)
    /\ SubSeq(file_contents, 1, Len(block)) = block

\* file_contents.contains(&prefixed_preamble)
IsStamped(file_contents, block) == Contains(file_contents, block)

\* fault: no empty line after the block
NewContentsOneLF(block, file_contents) == block \o <<LF>> \o file_contents

\* format!("{prefixed_preamble}\n\n{file_contents}")
NewContents(block, file_contents) == block \o <<LF, LF>> \o file_contents

Visited(t, events, panic) == [tree |-> t, events |-> events, panic |-> panic]

VisitEntry(e, t, contents) ==
    IF e = ErrEntry THEN Visited(t, <<>>, UnwrapErr)
    ELSE IF e \in ExistingRoots \/ ~IsFile(t[e].kind) THEN Visited(t, <<>>, "")
    ELSE LET i == FindExtension(t[e].ext)
         IN  IF i = 0 THEN Visited(t, <<>>, "")
             ELSE
             LET block == prefixed_preamble(extensions[i][2], contents)
                 file_contents == t[e].content
             IN  IF t[e].mode = "unreadable"
                 THEN Visited(t, <<Event("read failed", e)>>, UnwrapErr)
                 ELSE IF IsStamped(file_contents, block)
                 THEN Visited(t, <<Event("read", e), Event("Skipping", e)>>, "")
                 ELSE IF t[e].mode = "readonly"
                 THEN Visited(t,
                              <<Event("read", e), Event("Adding preamble", e),
                                Event("write failed", e)>>,
                              UnwrapErr)
                 ELSE Visited([t EXCEPT ![e].content =
                                   NewContents(block, file_contents)],
                              <<Event("read", e), Event("Adding preamble", e),
                                Event("write", e)>>,
                              "")

\* the walk of one root as a function of the entries it yields
RECURSIVE WalkEntries(_, _, _)
WalkEntries(es, t, contents) ==
    IF es = <<>> THEN [tree |-> t, panic |-> ""]
    ELSE LET r == VisitEntry(Head(es), t, contents)
         IN  IF r.panic # "" THEN [tree |-> r.tree, panic |-> r.panic]
             ELSE WalkEntries(Tail(es), r.tree, contents)

\* lines 178-209 over roots that are all on the disk, as a function of the
\* roots, the tree, the listing order and the preamble text
RECURSIVE AddResult(_, _, _, _)
AddResult(roots, t, ord, contents) ==
    IF roots = <<>> THEN [tree |-> t, exit |-> "ok"]
    ELSE LET w == WalkEntries(WalkDir(Head(roots), ord), t, contents)
         IN  IF w.panic # "" THEN [tree |-> w.tree, exit |-> w.panic]
             ELSE AddResult(Tail(roots), w.tree, ord, contents)

---------------------------------------------------------------------------
(* add: the command *)

DefaultRoots == <<"src", "lib">>

\* source_root.unwrap_or_else(|| vec!["src", "lib"])
SourceRoots(c) == IF c.source_root.some THEN c.source_root.roots ELSE DefaultRoots

\* lines 159-176: the precondition, the roots, the preamble text
AddStart ==
    /\ cmd.name = "add"
    /\ pc \in {"idle", "exit"}
    /\ runs < MaxRuns
    /\ runs' = runs + 1
    /\ before' = [tree |-> tree, root_files |-> root_files]
    /\ walk' = <<>>
    /\ IF ~PathExists(root_files, "PREAMBLE")
       THEN /\ pc' = "exit"
            /\ exit' = RunInitFirst
            /\ log' = <<>>
            /\ source_roots' = <<>>
            /\ preamble_contents' = <<>>
       ELSE LET read == ReadToString(root_files, "PREAMBLE")
            IN  /\ log' = <<Event(IF read.ok THEN "read" ELSE "read failed",
                                  "PREAMBLE")>>
                /\ pc' = IF read.ok THEN "roots" ELSE "exit"
                /\ exit' = IF read.ok THEN "" ELSE UnwrapErr
                /\ source_roots' = IF read.ok THEN SourceRoots(cmd) ELSE <<>>
                /\ preamble_contents' = read.text
    /\ UNCHANGED <<catalog, root_files, tree, order, cmd, license_document,
                   fmtIn, fmtOut>>

\* lines 178-183: the next root is skipped when it is not on the disk,
\* walked otherwise
AddNextRoot ==
    /\ pc = "roots"
    /\ source_roots # <<>>
    /\ source_roots' = Tail(source_roots)
    /\ IF RootMissing(Head(source_roots))
       THEN UNCHANGED <<pc, walk>>
       ELSE /\ walk' = WalkDir(Head(source_roots), order)
            /\ pc' = "walk"
    /\ UNCHANGED <<catalog, root_files, tree, order, cmd, preamble_contents,
                   license_document, exit, log, runs, before, fmtIn, fmtOut>>

\* lines 184-208: the walk yields one entry
AddVisit ==
    /\ pc = "walk"
    /\ walk # <<>>
    /\ LET r == VisitEntry(Head(walk), tree, preamble_contents)
       IN  /\ tree' = r.tree
           /\ log' = log \o r.events
           /\ IF r.panic # ""
              THEN /\ pc' = "exit"
                   /\ exit' = r.panic
                   /\ UNCHANGED walk
              ELSE /\ walk' = Tail(walk)
                   /\ pc' = IF Tail(walk) = <<>> THEN "roots" ELSE "walk"
                   /\ UNCHANGED exit
    /\ UNCHANGED <<catalog, root_files, order, cmd, source_roots,
                   preamble_contents, license_document, runs, before,
                   fmtIn, fmtOut>>

\* line 210: every root is done
AddExit ==
    /\ pc = "roots"
    /\ source_roots = <<>>
    /\ pc' = "exit"
    /\ exit' = "ok"
    /\ UNCHANGED <<catalog, root_files, tree, order, cmd, source_roots,
                   preamble_contents, walk, license_document, log, runs,
                   before, fmtIn, fmtOut>>

\* the block the six recognised extensions share, for the text "a"
BlockA == <<"/", "/", SP, "a">>

\* an entry: what it is, its extension ("": none), whether reading or
\* writing it fails, and its text
EntryStates ==
    {[kind |-> "file", ext |-> x, mode |-> "ok", content |-> c] :
        x \in {"rs", "tsx", "RS", ""}, c \in {<<"x">>, <<"x", LF>> \o BlockA}}
    \cup
    {[kind |-> "file", ext |-> "rs", mode |-> m, content |-> c] :
        m \in {"unreadable", "readonly"},
        c \in {<<"x">>, <<"x", LF>> \o BlockA}}
    \cup
    {[kind |-> "symlink", ext |-> "rs", mode |-> "ok", content |-> c] :
        c \in {<<"x">>, <<"x", LF>> \o BlockA}}
    \cup
    {[kind |-> "dir", ext |-> "rs", mode |-> "ok", content |-> <<>>]}

PreambleTexts == {<<>>, <<"a">>, <<"a", LF, "a", LF>>}

\* LICENSE and PREAMBLE as `add` may find them
AddRootFiles ==
    {[LICENSE |-> Absent, PREAMBLE |-> Absent],
     [LICENSE |-> Absent, PREAMBLE |-> LinkToLicense],
     [LICENSE |-> RegularFile(<<"a">>), PREAMBLE |-> LinkToLicense]}
    \cup
    {[LICENSE |-> Absent, PREAMBLE |-> RegularFile(t)] : t \in PreambleTexts}

RECURSIVE RootListsOfLen(_)
RootListsOfLen(n) ==
    IF n = 0 THEN {<<>>}
    ELSE {<<r>> \o rs : r \in {"src", "lib"}, rs \in RootListsOfLen(n - 1)}

\* the command lines of `add`: no root, or 1..MaxRoots roots
AddCommands ==
    {[name |-> "add", source_root |-> [some |-> FALSE, roots |-> <<>>]]}
    \cup
    {[name |-> "add", source_root |-> [some |-> TRUE, roots |-> rs]] :
        rs \in UNION {RootListsOfLen(n) : n \in 1..MaxRoots}}

Orders == {<<"f1", "f2">>, <<"f2", "f1">>}

InitAdd ==
    /\ catalog = <<>>
    /\ root_files \in AddRootFiles
    /\ tree \in [Files -> EntryStates]
    /\ order \in Orders
    /\ cmd \in AddCommands
    /\ pc = "idle"
    /\ source_roots = <<>>
    /\ preamble_contents = <<>>
    /\ walk = <<>>
    /\ license_document = 0
    /\ exit = ""
    /\ log = <<>>
    /\ runs = 0
    /\ before = [tree |-> tree, root_files |-> root_files]
    /\ fmtIn = <<>>
    /\ fmtOut = <<>>

NextAdd == AddStart \/ AddNextRoot \/ AddVisit \/ AddExit

SpecAdd == InitAdd /\ [][NextAdd]_vars

---------------------------------------------------------------------------
(* init: the command *)

\* the body of the i-th embedded document, with the blank space around it
Body(i) == <<LF, <<"m", "g", "b">>[i], SP, "l", LF>>

\* fault: the last matching record instead of the first
ResolveLast(licenses, license) ==
    LET hits == {i \in 1..Len(licenses) :
                    licenses[i].title = license \/ licenses[i].spdx_id = license}
    IN  IF hits = {} THEN 0 ELSE CHOOSE i \in hits : \A j \in hits : j <= i

\* licenses.iter().find(|document| title == license || spdx_id == license):
\* the index of the first record it accepts, 0 when it accepts none
RECURSIVE Find(_, _, _)
Find(licenses, license, i) ==
    IF i > Len(licenses) THEN 0
    ELSE IF licenses[i].title = license \/ licenses[i].spdx_id = license THEN i
    ELSE Find(licenses, license, i + 1)

Resolve(licenses, license) == Find(licenses, license, 1)

\* lines 135-152, for the license named on the command line
InitCmd(license) ==
    /\ pc \in {"idle", "exit"}
    /\ runs < MaxRuns
    /\ runs' = runs + 1
    /\ cmd' = [name |-> "init", license |-> license]
    /\ before' = [tree |-> tree, root_files |-> root_files]
    /\ pc' = "exit"
    /\ LET doc == Resolve(catalog, license)
           wrote == ~PathExists(root_files, "LICENSE")
           fs1 == IF wrote
                  THEN [root_files EXCEPT
                            !["LICENSE"] = RegularFile(Trim(catalog[doc].content))]
                  ELSE root_files
           links == ~PathExists(fs1, "PREAMBLE")
           \* soft_link fails when the PREAMBLE entry is there already
           linked == links /\ fs1["PREAMBLE"].kind = "absent"
           fs2 == IF linked
                  THEN [fs1 EXCEPT !["PREAMBLE"] = LinkToLicense]
                  ELSE fs1
       IN  /\ license_document' = doc
           /\ IF doc = 0
              THEN /\ exit' = InvalidLicense
                   /\ log' = <<>>
                   /\ UNCHANGED root_files
              ELSE /\ root_files' = fs2
                   /\ exit' = IF links /\ ~linked THEN UnwrapErr ELSE "ok"
                   /\ log' =
                        <<IF wrote THEN Event("write", "LICENSE")
                          ELSE Event(RefuseLicense, "LICENSE")>>
                        \o
                        <<IF linked THEN Event("soft_link", "PREAMBLE")
                          ELSE IF links THEN Event("soft_link failed", "PREAMBLE")
                          ELSE Event(RefusePreamble, "PREAMBLE")>>
    /\ UNCHANGED <<catalog, tree, order, source_roots, preamble_contents,
                   walk, fmtIn, fmtOut>>

\* titles and identifiers of the records, and the names a user may type
Names == {"MIT", "MIT License"}
LicenseArgs == Names \cup {"mit", "GPL-3.0"}

RECURSIVE CatalogsOfLen(_)
CatalogsOfLen(n) ==
    IF n = 0 THEN {<<>>}
    ELSE {Append(c, [title |-> t, spdx_id |-> d, content |-> Body(n)]) :
             c \in CatalogsOfLen(n - 1), t \in Names, d \in Names}

Catalogs == UNION {CatalogsOfLen(n) : n \in 1..MaxCat}

InitRootFiles ==
    [LICENSE : {Absent, RegularFile(<<"o">>)},
     PREAMBLE : {Absent, LinkToLicense, RegularFile(<<"p">>)}]

InitInit ==
    /\ catalog \in Catalogs
    /\ root_files \in InitRootFiles
    /\ tree = <<>>
    /\ order = <<>>
    /\ cmd = [name |-> "init", license |-> ""]
    /\ pc = "idle"
    /\ source_roots = <<>>
    /\ preamble_contents = <<>>
    /\ walk = <<>>
    /\ license_document = 0
    /\ exit = ""
    /\ log = <<>>
    /\ runs = 0
    /\ before = [tree |-> tree, root_files |-> root_files]
    /\ fmtIn = <<>>
    /\ fmtOut = <<>>

NextInit == \E license \in LicenseArgs : InitCmd(license)

SpecInit == InitInit /\ [][NextInit]_vars

---------------------------------------------------------------------------
(* The formatter on its own: every text up to MaxLen, every extension *)

Alphabet == {"a", SP, LF, CR}

RECURSIVE TextsOfLen(_)
TextsOfLen(n) ==
    IF n = 0 THEN {<<>>}
    ELSE {<<c>> \o t : c \in Alphabet, t \in TextsOfLen(n - 1)}

Texts == UNION {TextsOfLen(n) : n \in 0..MaxLen}

\* extensions a path may have; "" stands for a path without one
ExtensionInputs == {"rs", "swift", "js", "ts", "tsx", "jsx", "RS", "txt", ""}

NoRule == [rule |-> FALSE, block |-> <<>>]

\* lines 192-195: the rule for the extension, then the block
FormattedBlock(extension, contents) ==
    LET i == FindExtension(extension)
    IN  IF i = 0 THEN NoRule
        ELSE [rule |-> TRUE,
              block |-> prefixed_preamble(extensions[i][2], contents)]

InitFmt ==
    /\ catalog = <<>>
    /\ root_files = <<>>
    /\ tree = <<>>
    /\ order = <<>>
    /\ cmd = <<>>
    /\ pc = "idle"
    /\ source_roots = <<>>
    /\ preamble_contents = <<>>
    /\ walk = <<>>
    /\ license_document = 0
    /\ exit = ""
    /\ log = <<>>
    /\ runs = 0
    /\ before = <<>>
    /\ fmtIn \in [extension : ExtensionInputs, contents : Texts]
    /\ fmtOut = [done |-> FALSE, rule |-> FALSE, block |-> <<>>]

Format ==
    /\ ~fmtOut.done
    /\ fmtOut' = [done |-> TRUE,
                  rule |-> FormattedBlock(fmtIn.extension, fmtIn.contents).rule,
                  block |-> FormattedBlock(fmtIn.extension, fmtIn.contents).block]
    /\ UNCHANGED <<catalog, root_files, tree, order, cmd, pc, source_roots,
                   preamble_contents, walk, license_document, exit, log,
                   runs, before, fmtIn>>

NextFmt == Format

SpecFmt == InitFmt /\ [][NextFmt]_vars

---------------------------------------------------------------------------
(* Properties of add *)

\* the extensions of the comment mapper, as the specification lists them
Recognised == {"rs", "swift", "js", "ts", "tsx", "jsx"}

\* a regular file with a recognised extension
Eligible(t, e) == t[e].kind = "file" /\ t[e].ext \in Recognised

\* the formatted block of this invocation: every rule's prefix is //
RefBlock == prefixed_preamble(Slashes, preamble_contents)

\* the walk is about to yield entry e
Visiting(e) == pc = "walk" /\ walk # <<>> /\ Head(walk) = e

\* the events the step appends for entry e
NewEventsOf(e) ==
    {log'[i].op : i \in {j \in (Len(log) + 1)..Len(log') : log'[j].path = e}}

OnDisk(root) == root \in ExistingRoots

\* PREAMBLE is not there: no entry, or a link whose target is missing
NoPreamble(fs) ==
    \/ fs["PREAMBLE"].kind = "absent"
    \/ fs["PREAMBLE"].kind = "symlink" /\ fs["LICENSE"].kind # "file"

\* C1: a second (and any later) run of add over the same roots, on the tree
\* the run before it left, changes no entry: every file keeps the content
\* it had when the earlier run ended, whether that run finished or panicked.
C1_AddIdempotent == runs >= 2 => tree = before.tree

\* C1 witness: the second run has ended; the first stamped f1, which the
\* command line reaches through two roots.
C1_Witness ==
    /\ runs = 2 /\ pc = "exit" /\ exit = "ok"
    /\ SourceRoots(cmd) = <<"src", "src">>
    /\ preamble_contents = <<"a">>
    /\ tree["f1"].content = BlockA \o <<LF, LF, "x">>
    /\ tree["f1"].mode = "ok" /\ tree["f1"].ext = "rs"

\* C2: when the walk yields a regular file with a recognised extension
\* whose content holds the formatted block at any position, the step
\* leaves the whole tree as it is and writes nothing.
C2_StampedFileUntouched ==
    [][\A e \in Files :
          (Visiting(e) /\ Eligible(tree, e)
              /\ Contains(tree[e].content, RefBlock))
          => /\ tree' = tree
             /\ NewEventsOf(e) \cap {"write", "write failed", "Adding preamble"} = {}
      ]_vars

\* C2 witness: f1 holds the block after other text and was skipped.
C2_Witness ==
    /\ preamble_contents = <<"a">>
    /\ tree["f1"].kind = "file" /\ tree["f1"].ext = "tsx"
    /\ tree["f1"].content = <<"x", LF>> \o BlockA
    /\ \E i \in 1..Len(log) : log[i] = Event("Skipping", "f1")

\* C3: when the walk yields a regular file with a recognised extension
\* whose content does not hold the formatted block (and the file can be
\* read and written), its new content is the block, two line feeds, then
\* the old content, and no other entry changes; the text a, a on two lines
\* and the file x give // a, // a, an empty line, x.
C3_StampLayout ==
    [][\A e \in Files :
          (Visiting(e) /\ Eligible(tree, e) /\ tree[e].mode = "ok"
              /\ ~Contains(tree[e].content, RefBlock))
          => /\ tree'[e].content = RefBlock \o <<LF, LF>> \o tree[e].content
             /\ \A f \in Files \ {e} : tree'[f] = tree[f]
             /\ (preamble_contents = <<"a", LF, "a", LF>>
                     /\ tree[e].content = <<"x">>)
                => tree'[e].content =
                       <<"/", "/", SP, "a", LF, "/", "/", SP, "a", LF, LF, "x">>
      ]_vars

\* C3 witness: the two-line preamble was stamped into f2, which held x.
C3_Witness ==
    /\ preamble_contents = <<"a", LF, "a", LF>>
    /\ before.tree["f2"].content = <<"x">>
    /\ tree["f2"].content =
           <<"/", "/", SP, "a", LF, "/", "/", SP, "a", LF, LF, "x">>
    /\ \E i \in 1..Len(log) : log[i] = Event("write", "f2")

\* C4: no step changes, reads or writes an entry that is not a regular
\* file, or whose extension is missing or not exactly one of the six.
C4_IneligibleUntouched ==
    [][\A e \in Files :
          ~Eligible(tree, e) => (tree'[e] = tree[e] /\ NewEventsOf(e) = {})
      ]_vars

\* C4 witness: a run that stamped f2 has ended, and f1, a regular file
\* named with the extension RS and without the block, is as it was.
C4_Witness ==
    /\ pc = "exit" /\ exit = "ok"
    /\ preamble_contents = <<"a">>
    /\ tree["f1"].kind = "file" /\ tree["f1"].ext = "RS"
    /\ tree["f1"].content = <<"x">>
    /\ tree["f2"].content = BlockA \o <<LF, LF, "x">>
    /\ before.tree["f2"].content = <<"x">>

\* C5: an invocation of add that finds no PREAMBLE ends at once with the
\* panic Run init first, having read and written nothing: the tree is as
\* it was, for every list of roots.
C5_NoPreambleNoWrites ==
    (runs >= 1 /\ NoPreamble(before.root_files))
    => (pc = "exit" /\ exit = RunInitFirst /\ log = <<>>
           /\ tree = before.tree)

\* C5 witness: add src has ended on the missing PREAMBLE with a file in the
\* tree that a walk would have stamped.
C5_Witness ==
    /\ runs = 1 /\ pc = "exit" /\ exit = RunInitFirst
    /\ root_files["PREAMBLE"].kind = "absent"
    /\ SourceRoots(cmd) = <<"src">>
    /\ tree["f1"] = [kind |-> "file", ext |-> "rs", mode |-> "ok",
                     content |-> <<"x">>]

\* C6: when add has ended (past the PREAMBLE check), the tree and the exit
\* status are those of walking only the roots that are on the disk, in the
\* order given: a missing root, wherever it stands in the list, changes
\* neither.
C6_MissingRootSkipped ==
    (pc = "exit" /\ exit # RunInitFirst)
    => LET r == AddResult(SelectSeq(SourceRoots(cmd), OnDisk), before.tree,
                          order, preamble_contents)
       IN  tree = r.tree /\ exit = r.exit

\* C6 witness: add lib src has ended well and stamped f1.
C6_Witness ==
    /\ pc = "exit" /\ exit = "ok"
    /\ SourceRoots(cmd) = <<"lib", "src">>
    /\ before.tree["f1"].content = <<"x">>
    /\ tree["f1"].content = BlockA \o <<LF, LF, "x">>

\* C10: when add has ended, the tree is the one the walk in the listing
\* order f1, f2 leaves: the outcome is the same for every listing order,
\* also when a read or a write fails and ends the walk.
C10_OrderIndependent ==
    (pc = "exit" /\ exit # RunInitFirst)
    => tree = AddResult(SelectSeq(SourceRoots(cmd), OnDisk), before.tree,
                        <<"f1", "f2">>, preamble_contents).tree

---------------------------------------------------------------------------
(* Properties of init *)

\* the records of the catalog that the typed name equals, by title or by
\* identifier
Matches(license) ==
    {i \in 1..Len(catalog) :
        catalog[i].title = license \/ catalog[i].spdx_id = license}

\* C7: init overwrites nothing: a LICENSE or PREAMBLE entry that was there
\* is the same afterwards; with a valid license the command ends well and
\* reports each refusal, and leaves both entries in place, so that a second
\* init changes nothing and reports two refusals.
C7_InitNeverOverwrites ==
    pc = "exit" =>
        /\ before.root_files["LICENSE"].kind # "absent"
           => root_files["LICENSE"] = before.root_files["LICENSE"]
        /\ before.root_files["PREAMBLE"].kind # "absent"
           => root_files["PREAMBLE"] = before.root_files["PREAMBLE"]
        /\ Matches(cmd.license) # {}
           => /\ exit = "ok"
              /\ Len(log) = 2
              /\ before.root_files["LICENSE"].kind # "absent"
                 => log[1] = Event(RefuseLicense, "LICENSE")
              /\ before.root_files["PREAMBLE"].kind # "absent"
                 => log[2] = Event(RefusePreamble, "PREAMBLE")
              /\ root_files["LICENSE"].kind # "absent"
              /\ root_files["PREAMBLE"].kind # "absent"

\* C7 witness: the second init MIT has ended: both entries are those the
\* first created, and the log holds the two refusals.
C7_Witness ==
    /\ runs = 2 /\ pc = "exit" /\ exit = "ok"
    /\ cmd.license = "MIT"
    /\ root_files["LICENSE"] = RegularFile(<<"m", SP, "l">>)
    /\ root_files["PREAMBLE"] = LinkToLicense
    /\ before.root_files = root_files
    /\ log = <<Event(RefuseLicense, "LICENSE"),
               Event(RefusePreamble, "PREAMBLE")>>

\* C8: init resolves the typed name to the first record, in catalog order,
\* whose title or identifier equals it, and a LICENSE it creates holds that
\* record's trimmed body; a name that equals none ends the command with
\* the invalid-license panic and with LICENSE and PREAMBLE untouched.
C8_Resolver ==
    pc = "exit" =>
        LET hits == Matches(cmd.license)
        IN  IF hits = {}
            THEN /\ exit = InvalidLicense
                 /\ license_document = 0
                 /\ root_files = before.root_files
                 /\ log = <<>>
            ELSE /\ license_document \in hits
                 /\ \A j \in hits : license_document <= j
                 /\ exit # InvalidLicense
                 /\ before.root_files["LICENSE"].kind = "absent"
                    => root_files["LICENSE"] =
                           RegularFile(Trim(Body(license_document)))

\* C8 witness: MIT is the identifier of the first record and the title of
\* the second; init MIT took the first and wrote its body.
C8_Witness ==
    /\ pc = "exit" /\ cmd.license = "MIT" /\ Len(catalog) = 2
    /\ catalog[1].spdx_id = "MIT" /\ catalog[1].title = "MIT License"
    /\ catalog[2].title = "MIT"
    /\ license_document = 1
    /\ before.root_files["LICENSE"].kind = "absent"
    /\ root_files["LICENSE"] = RegularFile(<<"m", SP, "l">>)

---------------------------------------------------------------------------
(* Properties of the formatter *)

\* the pieces between the line feeds of s: one more than its line feeds
RECURSIVE SplitLF(_)
SplitLF(s) ==
    LET i == FirstLF(s)
    IN  IF i = 0 THEN <<s>>
        ELSE <<SubSeq(s, 1, i - 1)>> \o SplitLF(SubSeq(s, i + 1, Len(s)))

\* each piece as prefix, one space, the piece, trailing whitespace stripped;
\* the results joined by single line feeds
BlockOf(prefix, pieces) ==
    JoinLF([i \in 1..Len(pieces) |-> TrimEnd(prefix \o <<SP>> \o pieces[i])])

\* the pieces without the last one when that is empty
DropEmptyLast(pieces) ==
    IF pieces[Len(pieces)] = <<>>
    THEN SubSeq(pieces, 1, Len(pieces) - 1)
    ELSE pieces

\* C9 as stated: the block has one output line per piece of the split on
\* line feeds, also for a text that ends in a line feed or is empty.
C9_SplitEveryLineFeed ==
    (fmtOut.done /\ fmtOut.rule)
    => fmtOut.block = BlockOf(Slashes, SplitLF(fmtIn.contents))

\* C9 amended: as stated, except that a line feed at the very end of the
\* text ends the last line and starts no other, and the empty text has no
\* line: the empty piece after the last line feed gives no output line.
C9_FormattedBlock ==
    fmtOut.done =>
        /\ fmtOut.rule <=> fmtIn.extension \in Recognised
        /\ fmtOut.rule
           => fmtOut.block =
                  BlockOf(Slashes, DropEmptyLast(SplitLF(fmtIn.contents)))

\* C9 witness: an empty line, then a, then a final line feed, formatted for
\* a .rs file: the bare prefix, a line feed, // a.
C9_Witness ==
    /\ fmtOut.done /\ fmtOut.rule
    /\ fmtIn.extension = "rs"
    /\ fmtIn.contents = <<LF, "a", LF>>
    /\ fmtOut.block = <<"/", "/", LF, "/", "/", SP, "a">>

===========================================================================
